---------------------------- MODULE Spec2Model ----------------------------
(***************************************************************************)
(* Model of implementors/core/ops/trait.SubAssign.js: a script that builds *)
(* the implementor registry statement by statement and then publishes it,  *)
(* either by calling window.register_implementors or by storing it in      *)
(* window.pending_implementors.                                            *)
(*                                                                         *)
(* A script runs to completion: the host (the page that defines the hook   *)
(* and reads the slot) only acts between loads.  Every variable is indexed *)
(* by an environment (a window with its own globals and heap), so that one *)
(* specification follows repeated loads in one window and another follows  *)
(* single loads in two isolated windows.                                   *)
(***************************************************************************)
EXTENDS Naturals, Sequences, FiniteSets

VARIABLES
  hook,     \* hook[e]: the value bound to window.register_implementors
  slot,     \* slot[e]: the value bound to window.pending_implementors
  heap,     \* heap[e]: the objects allocated by loads, by reference number
  pc,       \* pc[e]: position of the running load, "idle" between loads
  cur,      \* cur[e]: the local variable implementors (a reference), 0 if none
  i,        \* i[e]: number of assignment statements of line 2 already run
  calls,    \* calls[e]: the calls the hook has received, in order
  outcome,  \* outcome[e]: how each load's publish step ended, in order
  pre,      \* pre[e]: hook and slot as they were when the running load began
  loads     \* loads[e]: number of loads started

vars == <<hook, slot, heap, pc, cur, i, calls, outcome, pre, loads>>

\* Number of loads of the file followed in one window.
MaxLoads == 2

-----------------------------------------------------------------------------
(* JavaScript values: a type tag, a printed value, and for the registry     *)
(* objects a reference into the heap.                                       *)

JSVal(t, v, ref) == [t |-> t, v |-> v, ref |-> ref]

Undefined == JSVal("undefined", "", 0)
Null == JSVal("null", "", 0)
False == JSVal("boolean", "false", 0)
True == JSVal("boolean", "true", 0)
Zero == JSVal("number", "0", 0)
One == JSVal("number", "1", 0)
EmptyString == JSVal("string", "", 0)
NonEmptyString == JSVal("string", "x", 0)
HostObject == JSVal("object", "host", 0)
Recorder == JSVal("function", "recorder", 0)
Thrower == JSVal("function", "thrower", 0)
StaleValue == JSVal("string", "stale", 0)

Ref(id) == JSVal("object", "registry", id)

\* The values the host may bind to window.register_implementors.
HookValues ==
  {Undefined, Null, False, Zero, EmptyString,
   True, One, NonEmptyString, HostObject, Recorder, Thrower}

\* The values window.pending_implementors may hold apart from a registry.
SlotValues == {Undefined, StaleValue}

\* Variant: the condition tests for definedness (!== undefined) instead.
ToBoolean_definedness(x) == x.t /= "undefined"

\* The condition of an if statement: ECMAScript ToBoolean.
ToBoolean(x) ==
  CASE x.t \in {"undefined", "null"} -> FALSE
    [] x.t = "boolean" -> x.v = "true"
    [] x.t = "number" -> x.v \notin {"0", "NaN"}
    [] x.t = "string" -> x.v /= ""
    [] OTHER -> TRUE

\* A call expression f(...) throws a TypeError unless f is a function.
IsCallable(x) == x.t = "function"

-----------------------------------------------------------------------------
(* The markup fragments of line 2, verbatim.                                *)

WC_WlShellSurfaceResize ==
  "impl <a class='trait' href='https://doc.rust-lang.org/nightly/core/ops/trait.SubAssign.html' title='core::ops::SubAssign'>SubAssign</a> for <a class='struct' href='wayland_client/wayland/shell/WlShellSurfaceResize/struct.WlShellSurfaceResize.html' title='wayland_client::wayland::shell::WlShellSurfaceResize::WlShellSurfaceResize'>WlShellSurfaceResize</a>"

WC_WlShellSurfaceTransient ==
  "impl <a class='trait' href='https://doc.rust-lang.org/nightly/core/ops/trait.SubAssign.html' title='core::ops::SubAssign'>SubAssign</a> for <a class='struct' href='wayland_client/wayland/shell/WlShellSurfaceTransient/struct.WlShellSurfaceTransient.html' title='wayland_client::wayland::shell::WlShellSurfaceTransient::WlShellSurfaceTransient'>WlShellSurfaceTransient</a>"

WC_WlSeatCapability ==
  "impl <a class='trait' href='https://doc.rust-lang.org/nightly/core/ops/trait.SubAssign.html' title='core::ops::SubAssign'>SubAssign</a> for <a class='struct' href='wayland_client/wayland/seat/WlSeatCapability/struct.WlSeatCapability.html' title='wayland_client::wayland::seat::WlSeatCapability::WlSeatCapability'>WlSeatCapability</a>"

WC_WlOutputMode ==
  "impl <a class='trait' href='https://doc.rust-lang.org/nightly/core/ops/trait.SubAssign.html' title='core::ops::SubAssign'>SubAssign</a> for <a class='struct' href='wayland_client/wayland/output/WlOutputMode/struct.WlOutputMode.html' title='wayland_client::wayland::output::WlOutputMode::WlOutputMode'>WlOutputMode</a>"

WW_WlShellSurfaceResize ==
  "impl <a class='trait' href='https://doc.rust-lang.org/nightly/core/ops/trait.SubAssign.html' title='core::ops::SubAssign'>SubAssign</a>&lt;<a class='struct' href='wayland_client/sys/wayland/client/WlShellSurfaceResize/struct.WlShellSurfaceResize.html' title='wayland_client::sys::wayland::client::WlShellSurfaceResize::WlShellSurfaceResize'>WlShellSurfaceResize</a>&gt; for <a class='struct' href='wayland_client/sys/wayland/client/WlShellSurfaceResize/struct.WlShellSurfaceResize.html' title='wayland_client::sys::wayland::client::WlShellSurfaceResize::WlShellSurfaceResize'>WlShellSurfaceResize</a>"

WW_WlShellSurfaceTransient ==
  "impl <a class='trait' href='https://doc.rust-lang.org/nightly/core/ops/trait.SubAssign.html' title='core::ops::SubAssign'>SubAssign</a>&lt;<a class='struct' href='wayland_client/sys/wayland/client/WlShellSurfaceTransient/struct.WlShellSurfaceTransient.html' title='wayland_client::sys::wayland::client::WlShellSurfaceTransient::WlShellSurfaceTransient'>WlShellSurfaceTransient</a>&gt; for <a class='struct' href='wayland_client/sys/wayland/client/WlShellSurfaceTransient/struct.WlShellSurfaceTransient.html' title='wayland_client::sys::wayland::client::WlShellSurfaceTransient::WlShellSurfaceTransient'>WlShellSurfaceTransient</a>"

WW_WlSeatCapability ==
  "impl <a class='trait' href='https://doc.rust-lang.org/nightly/core/ops/trait.SubAssign.html' title='core::ops::SubAssign'>SubAssign</a>&lt;<a class='struct' href='wayland_client/sys/wayland/client/WlSeatCapability/struct.WlSeatCapability.html' title='wayland_client::sys::wayland::client::WlSeatCapability::WlSeatCapability'>WlSeatCapability</a>&gt; for <a class='struct' href='wayland_client/sys/wayland/client/WlSeatCapability/struct.WlSeatCapability.html' title='wayland_client::sys::wayland::client::WlSeatCapability::WlSeatCapability'>WlSeatCapability</a>"

WW_WlOutputMode ==
  "impl <a class='trait' href='https://doc.rust-lang.org/nightly/core/ops/trait.SubAssign.html' title='core::ops::SubAssign'>SubAssign</a>&lt;<a class='struct' href='wayland_client/sys/wayland/client/WlOutputMode/struct.WlOutputMode.html' title='wayland_client::sys::wayland::client::WlOutputMode::WlOutputMode'>WlOutputMode</a>&gt; for <a class='struct' href='wayland_client/sys/wayland/client/WlOutputMode/struct.WlOutputMode.html' title='wayland_client::sys::wayland::client::WlOutputMode::WlOutputMode'>WlOutputMode</a>"

-----------------------------------------------------------------------------
(* Objects: a sequence of properties in insertion order.                    *)

EmptyObject == << >>

Keys(o) == [n \in 1..Len(o) |-> o[n].k]

HasKey(o, k) == \E n \in 1..Len(o) : o[n].k = k

Get(o, k) == o[CHOOSE n \in 1..Len(o) : o[n].k = k].v

\* Variant: a new property is put first instead of last.
SetProp_front(o, k, v) ==
  IF HasKey(o, k)
    THEN [n \in 1..Len(o) |-> IF o[n].k = k THEN [k |-> k, v |-> v] ELSE o[n]]
    ELSE <<[k |-> k, v |-> v]>> \o o

\* o[k] = v: replaces the value of an existing property, else adds one last.
SetProp(o, k, v) ==
  IF HasKey(o, k)
    THEN [n \in 1..Len(o) |-> IF o[n].k = k THEN [k |-> k, v |-> v] ELSE o[n]]
    ELSE Append(o, [k |-> k, v |-> v])

\* The assignment statements of line 2, in the order they run.
Assignments ==
  << [k |-> "libloading", v |-> << >>],
     [k |-> "libc", v |-> << >>],
     [k |-> "dlib", v |-> << >>],
     [k |-> "wayland_sys", v |-> << >>],
     [k |-> "shared_library", v |-> << >>],
     [k |-> "wayland_client",
      v |-> << WC_WlShellSurfaceResize, WC_WlShellSurfaceTransient,
               WC_WlSeatCapability, WC_WlOutputMode,
               WC_WlOutputMode, WC_WlSeatCapability,
               WC_WlShellSurfaceResize, WC_WlShellSurfaceTransient >>],
     [k |-> "tempfile", v |-> << >>],
     [k |-> "wayland_window",
      v |-> << WW_WlShellSurfaceResize, WW_WlShellSurfaceTransient,
               WW_WlSeatCapability, WW_WlOutputMode >>],
     [k |-> "wayland_kbd", v |-> << >>],
     [k |-> "winit", v |-> << >>] >>

NoPre == [hook |-> Undefined, slot |-> Undefined, set |-> FALSE]

-----------------------------------------------------------------------------
(* The load of the file, one step per statement.                            *)

\* Variant: implementors is one shared object, allocated by the first load
\* and used again by every later one.
LoadStart_reuse(e) ==
  /\ pc[e] = "idle"
  /\ loads[e] < MaxLoads
  /\ heap' = [heap EXCEPT ![e] = IF @ = << >> THEN <<EmptyObject>> ELSE @]
  /\ cur' = [cur EXCEPT ![e] = 1]
  /\ i' = [i EXCEPT ![e] = 0]
  /\ pc' = [pc EXCEPT ![e] = "build"]
  /\ pre' = [pre EXCEPT ![e] = [hook |-> hook[e], slot |-> slot[e], set |-> TRUE]]
  /\ loads' = [loads EXCEPT ![e] = @ + 1]
  /\ UNCHANGED <<hook, slot, calls, outcome>>

\* (function() { var implementors = {};
LoadStart(e) ==
  /\ pc[e] = "idle"
  /\ loads[e] < MaxLoads
  /\ heap' = [heap EXCEPT ![e] = Append(@, EmptyObject)]
  /\ cur' = [cur EXCEPT ![e] = Len(heap[e]) + 1]
  /\ i' = [i EXCEPT ![e] = 0]
  /\ pc' = [pc EXCEPT ![e] = "build"]
  /\ pre' = [pre EXCEPT ![e] = [hook |-> hook[e], slot |-> slot[e], set |-> TRUE]]
  /\ loads' = [loads EXCEPT ![e] = @ + 1]
  /\ UNCHANGED <<hook, slot, calls, outcome>>

\* Variant: the lists are filled in only when the hook is there to take them.
Build_envDependent(e) ==
  /\ pc[e] = "build"
  /\ i[e] < Len(Assignments)
  /\ heap' = [heap EXCEPT ![e][cur[e]] =
                SetProp(@, Assignments[i[e] + 1].k,
                        IF ToBoolean(hook[e])
                          THEN Assignments[i[e] + 1].v ELSE << >>)]
  /\ i' = [i EXCEPT ![e] = @ + 1]
  /\ pc' = [pc EXCEPT ![e] =
              IF i[e] + 1 = Len(Assignments) THEN "test" ELSE "build"]
  /\ UNCHANGED <<hook, slot, cur, calls, outcome, pre, loads>>

\* implementors['...'] = [...];  the next statement of line 2
Build(e) ==
  /\ pc[e] = "build"
  /\ i[e] < Len(Assignments)
  /\ heap' = [heap EXCEPT ![e][cur[e]] =
                SetProp(@, Assignments[i[e] + 1].k, Assignments[i[e] + 1].v)]
  /\ i' = [i EXCEPT ![e] = @ + 1]
  /\ pc' = [pc EXCEPT ![e] =
              IF i[e] + 1 = Len(Assignments) THEN "test" ELSE "build"]
  /\ UNCHANGED <<hook, slot, cur, calls, outcome, pre, loads>>

\* Variant: the else branch is missing.
HookTest_noElse(e) ==
  /\ pc[e] = "test"
  /\ pc' = [pc EXCEPT ![e] = IF ToBoolean(hook[e]) THEN "call" ELSE "done"]
  /\ UNCHANGED <<hook, slot, heap, cur, i, calls, outcome, pre, loads>>

\* if (window.register_implementors) { ... } else { ... }
HookTest(e) ==
  /\ pc[e] = "test"
  /\ pc' = [pc EXCEPT ![e] = IF ToBoolean(hook[e]) THEN "call" ELSE "store"]
  /\ UNCHANGED <<hook, slot, heap, cur, i, calls, outcome, pre, loads>>

\* Variant: the registry is buffered as well as handed to the hook.
CallHook_alsoBuffers(e) ==
  /\ pc[e] = "call"
  /\ slot' = [slot EXCEPT ![e] = Ref(cur[e])]
  /\ IF IsCallable(hook[e])
       THEN /\ calls' = [calls EXCEPT ![e] =
                           Append(@, [load |-> loads[e],
                                      args |-> <<Ref(cur[e])>>,
                                      snap |-> heap[e][cur[e]]])]
            /\ IF hook[e] = Thrower
                 THEN /\ pc' = [pc EXCEPT ![e] = "failed"]
                      /\ outcome' = [outcome EXCEPT ![e] = Append(@, "HookError")]
                 ELSE /\ pc' = [pc EXCEPT ![e] = "done"]
                      /\ outcome' = [outcome EXCEPT ![e] = Append(@, "called")]
       ELSE /\ calls' = calls
            /\ pc' = [pc EXCEPT ![e] = "failed"]
            /\ outcome' = [outcome EXCEPT ![e] = Append(@, "TypeError")]
  /\ UNCHANGED <<hook, heap, cur, i, pre, loads>>

\* Variant: the hook is called twice.
CallHook_twice(e) ==
  /\ pc[e] = "call"
  /\ IF IsCallable(hook[e])
       THEN /\ calls' = [calls EXCEPT ![e] =
                           @ \o << [load |-> loads[e],
                                    args |-> <<Ref(cur[e])>>,
                                    snap |-> heap[e][cur[e]]],
                                   [load |-> loads[e],
                                    args |-> <<Ref(cur[e])>>,
                                    snap |-> heap[e][cur[e]]] >>]
            /\ IF hook[e] = Thrower
                 THEN /\ pc' = [pc EXCEPT ![e] = "failed"]
                      /\ outcome' = [outcome EXCEPT ![e] = Append(@, "HookError")]
                 ELSE /\ pc' = [pc EXCEPT ![e] = "done"]
                      /\ outcome' = [outcome EXCEPT ![e] = Append(@, "called")]
       ELSE /\ calls' = calls
            /\ pc' = [pc EXCEPT ![e] = "failed"]
            /\ outcome' = [outcome EXCEPT ![e] = Append(@, "TypeError")]
  /\ UNCHANGED <<hook, slot, heap, cur, i, pre, loads>>

\* Variant: the call is wrapped in try/catch, and a failure of the hook falls
\* back to buffering.
CallHook_catchAndBuffer(e) ==
  /\ pc[e] = "call"
  /\ IF IsCallable(hook[e])
       THEN /\ calls' = [calls EXCEPT ![e] =
                           Append(@, [load |-> loads[e],
                                      args |-> <<Ref(cur[e])>>,
                                      snap |-> heap[e][cur[e]]])]
            /\ IF hook[e] = Thrower
                 THEN /\ slot' = [slot EXCEPT ![e] = Ref(cur[e])]
                      /\ pc' = [pc EXCEPT ![e] = "done"]
                      /\ outcome' = [outcome EXCEPT ![e] = Append(@, "buffered")]
                 ELSE /\ slot' = slot
                      /\ pc' = [pc EXCEPT ![e] = "done"]
                      /\ outcome' = [outcome EXCEPT ![e] = Append(@, "called")]
       ELSE /\ calls' = calls
            /\ slot' = slot
            /\ pc' = [pc EXCEPT ![e] = "failed"]
            /\ outcome' = [outcome EXCEPT ![e] = Append(@, "TypeError")]
  /\ UNCHANGED <<hook, heap, cur, i, pre, loads>>

\* window.register_implementors(implementors);
\* A value that is not a function makes the call throw a TypeError before any
\* call happens.  A function receives the call; the recorder returns, the
\* thrower throws.  Nothing in the file catches either exception.
CallHook(e) ==
  /\ pc[e] = "call"
  /\ IF IsCallable(hook[e])
       THEN /\ calls' = [calls EXCEPT ![e] =
                           Append(@, [load |-> loads[e],
                                      args |-> <<Ref(cur[e])>>,
                                      snap |-> heap[e][cur[e]]])]
            /\ IF hook[e] = Thrower
                 THEN /\ pc' = [pc EXCEPT ![e] = "failed"]
                      /\ outcome' = [outcome EXCEPT ![e] = Append(@, "HookError")]
                 ELSE /\ pc' = [pc EXCEPT ![e] = "done"]
                      /\ outcome' = [outcome EXCEPT ![e] = Append(@, "called")]
       ELSE /\ calls' = calls
            /\ pc' = [pc EXCEPT ![e] = "failed"]
            /\ outcome' = [outcome EXCEPT ![e] = Append(@, "TypeError")]
  /\ UNCHANGED <<hook, slot, heap, cur, i, pre, loads>>

\* Variant: a value already in the slot is kept
\* (window.pending_implementors = window.pending_implementors || implementors).
StoreSlot_keepExisting(e) ==
  /\ pc[e] = "store"
  /\ slot' = [slot EXCEPT ![e] = IF ToBoolean(@) THEN @ ELSE Ref(cur[e])]
  /\ pc' = [pc EXCEPT ![e] = "done"]
  /\ outcome' = [outcome EXCEPT ![e] = Append(@, "buffered")]
  /\ UNCHANGED <<hook, heap, cur, i, calls, pre, loads>>

\* Variant: after buffering, the load goes on to the call.
StoreSlot_fallthrough(e) ==
  /\ pc[e] = "store"
  /\ slot' = [slot EXCEPT ![e] = Ref(cur[e])]
  /\ pc' = [pc EXCEPT ![e] = "call"]
  /\ outcome' = [outcome EXCEPT ![e] = Append(@, "buffered")]
  /\ UNCHANGED <<hook, heap, cur, i, calls, pre, loads>>

\* window.pending_implementors = implementors;
StoreSlot(e) ==
  /\ pc[e] = "store"
  /\ slot' = [slot EXCEPT ![e] = Ref(cur[e])]
  /\ pc' = [pc EXCEPT ![e] = "done"]
  /\ outcome' = [outcome EXCEPT ![e] = Append(@, "buffered")]
  /\ UNCHANGED <<hook, heap, cur, i, calls, pre, loads>>

\* })()  the function returns, or the exception leaves it; the local variable
\* implementors is gone and control is back with the host.
LoadEnd(e) ==
  /\ pc[e] \in {"done", "failed"}
  /\ pc' = [pc EXCEPT ![e] = "idle"]
  /\ cur' = [cur EXCEPT ![e] = 0]
  /\ i' = [i EXCEPT ![e] = 0]
  /\ pre' = [pre EXCEPT ![e] = NoPre]
  /\ UNCHANGED <<hook, slot, heap, calls, outcome, loads>>

-----------------------------------------------------------------------------
(* The host, between loads.                                                 *)

\* The host binds window.register_implementors.
HostSetHook(e, v) ==
  /\ pc[e] = "idle"
  /\ v /= hook[e]
  /\ hook' = [hook EXCEPT ![e] = v]
  /\ UNCHANGED <<slot, heap, pc, cur, i, calls, outcome, pre, loads>>

\* The host replaces the contents of window.pending_implementors.
HostSetSlot(e, v) ==
  /\ pc[e] = "idle"
  /\ v /= slot[e]
  /\ slot' = [slot EXCEPT ![e] = v]
  /\ UNCHANGED <<hook, heap, pc, cur, i, calls, outcome, pre, loads>>

-----------------------------------------------------------------------------
(* Specifications.                                                          *)

InitOver(E) ==
  /\ hook \in [E -> HookValues]
  /\ slot \in [E -> SlotValues]
  /\ heap = [e \in E |-> << >>]
  /\ pc = [e \in E |-> "idle"]
  /\ cur = [e \in E |-> 0]
  /\ i = [e \in E |-> 0]
  /\ calls = [e \in E |-> << >>]
  /\ outcome = [e \in E |-> << >>]
  /\ pre = [e \in E |-> NoPre]
  /\ loads = [e \in E |-> 0]

Envs == DOMAIN pc

\* One window, repeated loads, the host acting between them.
Init == InitOver({"A"})

Next ==
  \E e \in Envs :
    \/ LoadStart(e)
    \/ Build(e)
    \/ HookTest(e)
    \/ CallHook(e)
    \/ StoreSlot(e)
    \/ LoadEnd(e)
    \/ \E v \in HookValues : HostSetHook(e, v)
    \/ \E v \in SlotValues : HostSetSlot(e, v)

Spec == Init /\ [][Next]_vars

\* Two isolated fresh windows, each in any pre-load state, one load in each.
InitIso == InitOver({"A", "B"})

NextIso ==
  \E e \in Envs :
    \/ (loads[e] = 0 /\ LoadStart(e))
    \/ Build(e)
    \/ HookTest(e)
    \/ CallHook(e)
    \/ StoreSlot(e)
    \/ LoadEnd(e)

SpecIso == InitIso /\ [][NextIso]_vars

-----------------------------------------------------------------------------
(* Properties.                                                              *)

\* The load has run its publish step and has not yet returned to the host.
Completed(e) == pc[e] \in {"done", "failed"}

\* The calls the hook received from load number l.
CallsBy(e, l) == {n \in 1..Len(calls[e]) : calls[e][n].load = l}

\* The hook was called once by the running load, with the registry alone.
CalledOnceWithRegistry(e) ==
  /\ Cardinality(CallsBy(e, loads[e])) = 1
  /\ \A n \in CallsBy(e, loads[e]) : calls[e][n].args = <<Ref(cur[e])>>

\* The slot holds the registry of the running load.
BufferedRegistry(e) == slot[e] = Ref(cur[e])

LastOutcome(e) ==
  IF outcome[e] = << >> THEN "none" ELSE outcome[e][Len(outcome[e])]

KeySet(o) == {o[n].k : n \in 1..Len(o)}

Falsy == {Undefined, Null, False, Zero, EmptyString}
TruthyNotCallable == {True, One, NonEmptyString, HostObject}
Functions == {Recorder, Thrower}

LibraryKeys ==
  << "libloading", "libc", "dlib", "wayland_sys", "shared_library",
     "wayland_client", "tempfile", "wayland_window", "wayland_kbd", "winit" >>

C2_NonInterference ==
  \A e \in Envs :
    pre[e].set =>
      /\ (CallsBy(e, loads[e]) /= {} \/ pc[e] = "call") => slot[e] = pre[e].slot
      /\ BufferedRegistry(e) =>
           (CallsBy(e, loads[e]) = {} /\ hook[e] = pre[e].hook)

C2_Witness ==
  \E e \in Envs :
    /\ Completed(e)
    /\ CallsBy(e, loads[e]) /= {}
    /\ pre[e].slot = StaleValue
    /\ slot[e] = StaleValue

\* C3: a load that began with the hook defined as a function has, when it
\* completes, made exactly one call, with one argument, the registry, holding
\* all ten library keys; no call is made before the registry is fully built.
C3_SynchronousCall ==
  \A e \in Envs :
    /\ pc[e] \in {"build", "test", "call"} => CallsBy(e, loads[e]) = {}
    /\ (Completed(e) /\ IsCallable(pre[e].hook)) =>
         /\ Cardinality(CallsBy(e, loads[e])) = 1
         /\ \A n \in CallsBy(e, loads[e]) :
              /\ Len(calls[e][n].args) = 1
              /\ calls[e][n].args[1] = Ref(cur[e])
              /\ KeySet(calls[e][n].snap) = {LibraryKeys[k] : k \in 1..10}
              /\ Cardinality(KeySet(calls[e][n].snap)) = 10
              /\ calls[e][n].snap = heap[e][cur[e]]

C3_Witness ==
  \E e \in Envs :
    /\ Completed(e)
    /\ pre[e].hook = Recorder
    /\ Len(calls[e]) = 1
    /\ Len(calls[e][1].snap) = 10

\* C4: a load that began with the hook undefined ends with the slot holding
\* the object it built, whatever the slot held before, and for every library
\* key the list in the slot is the authored list, in the authored order.
C4_BufferedWhenUndefined ==
  \A e \in Envs :
    (Completed(e) /\ pre[e].hook = Undefined) =>
      /\ pc[e] = "done"
      /\ slot[e] = Ref(cur[e])
      /\ cur[e] = Len(heap[e])
      /\ \A n \in 1..Len(Assignments) :
           /\ HasKey(heap[e][slot[e].ref], Assignments[n].k)
           /\ Get(heap[e][slot[e].ref], Assignments[n].k) = Assignments[n].v

C4_Witness ==
  \E e \in Envs :
    /\ Completed(e)
    /\ pre[e].hook = Undefined
    /\ pre[e].slot = StaleValue
    /\ slot[e] = Ref(cur[e])

\* The registry as the literal of line 2 spells it.
IsRegistry(o) ==
  /\ Keys(o) = LibraryKeys
  /\ Cardinality(KeySet(o)) = 10
  /\ \A n \in 1..Len(o) :
       o[n].v = CASE o[n].k = "wayland_client" ->
                       << WC_WlShellSurfaceResize, WC_WlShellSurfaceTransient,
                          WC_WlSeatCapability, WC_WlOutputMode,
                          WC_WlOutputMode, WC_WlSeatCapability,
                          WC_WlShellSurfaceResize, WC_WlShellSurfaceTransient >>
                  [] o[n].k = "wayland_window" ->
                       << WW_WlShellSurfaceResize, WW_WlShellSurfaceTransient,
                          WW_WlSeatCapability, WW_WlOutputMode >>
                  [] OTHER -> << >>
  /\ Len(Get(o, "wayland_client")) = 8
  /\ Len(Get(o, "wayland_window")) = 4

\* C5: what the hook receives, and what the slot holds when a load has
\* buffered, is the registry of the literal: the ten keys in order, 8 entries
\* for wayland_client, 4 for wayland_window, none for the rest; and every
\* registry a load has finished building stays that way.
C5_RegistryFidelity ==
  \A e \in Envs :
    /\ \A n \in 1..Len(calls[e]) : IsRegistry(calls[e][n].snap)
    /\ (Completed(e) /\ BufferedRegistry(e)) => IsRegistry(heap[e][slot[e].ref])
    /\ \A r \in 1..Len(heap[e]) :
         (r /= cur[e] \/ pc[e] /= "build") => IsRegistry(heap[e][r])

C5_Witness ==
  \E e \in Envs :
    /\ pc[e] = "idle"
    /\ Len(calls[e]) = 1
    /\ slot[e] = Ref(2)
    /\ IsRegistry(heap[e][1])
    /\ IsRegistry(heap[e][2])

\* C6: a load whose hook throws ends with the exception leaving the load,
\* after one call, without buffering: the slot holds what it held before.
C6_HookFailurePropagates ==
  \A e \in Envs :
    (Completed(e) /\ pre[e].hook = Thrower) =>
      /\ pc[e] = "failed"
      /\ LastOutcome(e) = "HookError"
      /\ Len(outcome[e]) = loads[e]
      /\ Cardinality(CallsBy(e, loads[e])) = 1
      /\ slot[e] = pre[e].slot
      /\ ~BufferedRegistry(e)

C6_Witness ==
  \E e \in Envs :
    /\ pc[e] = "failed"
    /\ pre[e].hook = Thrower
    /\ LastOutcome(e) = "HookError"
    /\ slot[e] = Undefined

\* C7: a load that buffered makes no call, then or later, and does nothing
\* after the store but return; when the host binds the hook nothing is called
\* and the slot is untouched; a registry in the slot stays there until the
\* host replaces it or another load stores its own.
C7_NoFurtherAction ==
  \A e \in Envs : \A l \in 1..Len(outcome[e]) :
    outcome[e][l] = "buffered" =>
      /\ CallsBy(e, l) = {}
      /\ l <= loads[e]
      /\ l = loads[e] => pc[e] \in {"done", "idle"}

C7_HostBindingTriggersNothing ==
  \A e \in Envs :
    /\ hook'[e] /= hook[e] =>
         (calls'[e] = calls[e] /\ slot'[e] = slot[e] /\ pc'[e] = "idle")
    /\ (slot[e].ref /= 0 /\ slot'[e] /= slot[e]) =>
         \/ (pc[e] = "idle" /\ pc'[e] = "idle" /\ slot'[e] \in SlotValues)
         \/ (pc[e] = "store" /\ slot'[e] = Ref(cur[e]))

C7_NoRetry == [](C7_NoFurtherAction) /\ [][C7_HostBindingTriggersNothing]_vars

C7_Witness ==
  \E e \in Envs :
    /\ pc[e] = "idle"
    /\ outcome[e] = <<"buffered">>
    /\ hook[e] = Recorder
    /\ slot[e] = Ref(1)
    /\ calls[e] = << >>

\* The one load of the window has built its registry.
Built(e) == loads[e] = 1 /\ pc[e] /= "build"

\* C8: in two isolated windows, whatever hook and slot each began with, the
\* registries the two loads build are identical.
C8_SameRegistry ==
  \A e1 \in Envs : \A e2 \in Envs :
    (Built(e1) /\ Built(e2)) => heap[e1][1] = heap[e2][1]

C8_Witness ==
  /\ Envs = {"A", "B"}
  /\ pc["A"] = "done"
  /\ pc["B"] = "failed"
  /\ pre["A"].hook = Undefined
  /\ pre["B"].hook = Thrower
  /\ pre["A"].slot /= pre["B"].slot
  /\ Len(heap["A"][1]) = 10

\* C9: the branch follows the truthiness of the binding.  Every falsy
\* binding (undefined, null, false, 0, "") ends buffered with no call
\* attempted; every truthy binding goes to the call and leaves the slot alone;
\* a truthy binding that is not a function ends in a TypeError with no call
\* received and the slot as it was.
C9_TruthinessDecides ==
  \A e \in Envs :
    /\ pc[e] = "store" => pre[e].hook \in Falsy
    /\ pc[e] = "call" => pre[e].hook \in TruthyNotCallable \cup Functions
    /\ Completed(e) =>
         /\ pre[e].hook \in Falsy =>
              /\ pc[e] = "done"
              /\ LastOutcome(e) = "buffered"
              /\ BufferedRegistry(e)
              /\ CallsBy(e, loads[e]) = {}
         /\ pre[e].hook \in TruthyNotCallable \cup Functions =>
              /\ LastOutcome(e) \in {"called", "HookError", "TypeError"}
              /\ slot[e] = pre[e].slot
         /\ pre[e].hook \in TruthyNotCallable =>
              /\ pc[e] = "failed"
              /\ LastOutcome(e) = "TypeError"
              /\ CallsBy(e, loads[e]) = {}
              /\ ~BufferedRegistry(e)

C9_Witness ==
  \E e \in Envs :
    /\ pc[e] = "failed"
    /\ pre[e].hook = HostObject
    /\ LastOutcome(e) = "TypeError"
    /\ calls[e] = << >>
    /\ slot[e] = pre[e].slot

\* C10: every load builds an object of its own, one that neither the slot
\* nor an earlier call refers to; when every load so far has buffered, the
\* slot holds the registry of the last load alone; every load with a function
\* as hook makes one call, so the calls number the loads that called; and a
\* load that calls the hook leaves in the slot what an earlier load stored.
C10_RepeatedLoads ==
  \A e \in Envs :
    /\ pc[e] /= "idle" =>
         /\ cur[e] = loads[e]
         /\ Len(heap[e]) = loads[e]
         /\ pre[e].slot /= Ref(cur[e])
         /\ \A n \in 1..Len(calls[e]) :
              calls[e][n].load < loads[e] => calls[e][n].args[1] /= Ref(cur[e])
    /\ (Completed(e) /\ \A l \in 1..Len(outcome[e]) : outcome[e][l] = "buffered")
         => (slot[e] = Ref(loads[e]) /\ IsRegistry(heap[e][slot[e].ref]))
    /\ \A l \in 1..Len(outcome[e]) :
         Cardinality(CallsBy(e, l)) =
           IF outcome[e][l] \in {"called", "HookError"} THEN 1 ELSE 0
    /\ (Completed(e) /\ IsCallable(pre[e].hook)) =>
         (LastOutcome(e) \in {"called", "HookError"} /\ slot[e] = pre[e].slot)

C10_Witness ==
  \E e \in Envs :
    /\ pc[e] = "done"
    /\ loads[e] = 2
    /\ outcome[e] = <<"buffered", "called">>
    /\ slot[e] = Ref(1)
    /\ Len(calls[e]) = 1
    /\ calls[e][1].args = <<Ref(2)>>

=============================================================================
